---- MODULE Spec2Model ----
(***************************************************************************)
(* Model of main.py, the SEC filings data viewer.                          *)
(*                                                                         *)
(* The script is re-run from top to bottom on every widget interaction.    *)
(* One run builds filter_conditions from the sidebar widgets, stops at the *)
(* filter gate when there is none, otherwise sends a row count request to *)
(* the query engine, derives max_page, reads the page number widget, sends *)
(* the ORDER BY / LIMIT / OFFSET request and renders the page with its     *)
(* download button.                                                        *)
(*                                                                         *)
(* Abstractions:                                                           *)
(*  - the CSV corpus is a sequence of blocks; a block is Chunk rows that   *)
(*    are identical in every selected column.  Of the fifteen selected     *)
(*    columns only date, cik and "Company Name" are kept; the other twelve *)
(*    are neither filtered nor ordered on.                                 *)
(*  - dates are day numbers; strings typed by the user are tuples of       *)
(*    one-character strings.                                               *)
(*  - a query result is a sequence of runs [row, n] (n copies of row).     *)
(*  - ORDER BY date, cik fixes the order of rows only up to rows with      *)
(*    equal (date, cik); the engine may return such rows in any order,     *)
(*    and may do so differently on every request.                          *)
(*  - a script run is not interrupted by a further interaction.            *)
(*  - the session is one in which the glob of lines 10-14 found files;    *)
(*    the corpus does not change during the session.                       *)
(***************************************************************************)
EXTENDS Integers, Sequences, FiniteSets, TLC

\* Bounds of the model.
MaxDate == 2
MaxCik == 2
MaxChunks == 2
Chunk == 7000

\* Program constants.
rows_per_page == 10000
Today == 1

NULL == "<NULL>"
NoDate == 0
NoWidget == [max |-> 0, value |-> 0]
NoExport == [file |-> "", mime |-> "", header |-> <<>>, body |-> <<>>]
NotVisited == <<>>

Dates == 1..MaxDate
Ciks == 1..MaxCik
Names == {NULL, "Acme"}
DateModes == {"No Date Filter", "Single Date", "Date Range"}
CikInputs == {<<>>, <<"1">>, <<"1", "'">>}

\* One CSV record, reduced to the columns the script filters, orders or
\* rewrites.
CsvRows == [date : Dates, cik : Ciks, name : Names]

Rank(r) == (r.date * (MaxCik + 1) + r.cik) * 2 + (IF r.name = NULL THEN 0 ELSE 1)

\* The corpora: up to MaxChunks blocks, listed in one canonical order (the
\* order of the blocks in the files is not observable through ORDER BY).
Corpora ==
    { c \in UNION { [1..n -> CsvRows] : n \in 0..MaxChunks } :
        \A i \in 1..Len(c) : \A j \in 1..Len(c) :
            i < j => Rank(c[i]) <= Rank(c[j]) }

----------------------------------------------------------------------------
\* Text helpers.

DigitChar == <<"0", "1", "2", "3", "4", "5", "6", "7", "8", "9">>

RECURSIVE CastVarchar(_)
CastVarchar(n) ==
    IF n < 10 THEN <<DigitChar[n + 1]>>
    ELSE CastVarchar(n \div 10) \o <<DigitChar[(n % 10) + 1]>>

QuoteCount(t) == Cardinality({ i \in 1..Len(t) : t[i] = "'" })

----------------------------------------------------------------------------
\* Filter conditions (lines 55-72).

DateEquals(d) == [kind |-> "DateEquals", date |-> d]
DateRangeSwapped(s, e) ==
    [kind |-> "DateRange", start |-> IF s <= e THEN s ELSE e, end |-> IF s <= e THEN e ELSE s]

DateRange(s, e) == [kind |-> "DateRange", start |-> s, end |-> e]
IdentifierEquals(t) == [kind |-> "IdentifierEquals", text |-> t]

Present(d) == d # NoDate

DateConditionsValidated(mode, sel, s, e) ==
    IF mode = "Single Date" THEN <<DateEquals(sel)>>
    ELSE IF mode = "Date Range" THEN
        IF Present(s) /\ Present(e) /\ s <= e THEN <<DateRange(s, e)>> ELSE <<>>
    ELSE <<>>

DateConditions(mode, sel, s, e) ==
    IF mode = "Single Date" THEN <<DateEquals(sel)>>
    ELSE IF mode = "Date Range" THEN
        IF Present(s) /\ Present(e) THEN <<DateRange(s, e)>> ELSE <<>>
    ELSE <<>>

CikConditions(t) == IF t # <<>> THEN <<IdentifierEquals(t)>> ELSE <<>>

BuildFilterConditions(mode, sel, s, e, t) ==
    DateConditions(mode, sel, s, e) \o CikConditions(t)

\* A literal with an odd number of quote characters leaves the SQL string
\* literal unterminated: the engine rejects the query text.
Malformed(conds) ==
    \E i \in 1..Len(conds) :
        conds[i].kind = "IdentifierEquals" /\ QuoteCount(conds[i].text) % 2 = 1

Satisfies(r, c) ==
    CASE c.kind = "DateEquals" -> r.date = c.date
      [] c.kind = "DateRange" -> r.date >= c.start /\ r.date <= c.end
      [] c.kind = "IdentifierEquals" -> CastVarchar(r.cik) = c.text

where_clause(r, conds) == \A i \in 1..Len(conds) : Satisfies(r, conds[i])

----------------------------------------------------------------------------
\* Queries (lines 18-41, 83, 86, 103).

Coalesce(v, dflt) == IF v = NULL THEN dflt ELSE v

SelectRow(r) ==
    [date |-> r.date, cik |-> r.cik, Company_Name |-> Coalesce(r.name, "Unknown")]

base_query(c) == [i \in 1..Len(c) |-> SelectRow(c[i])]

filtered_query(c, conds) ==
    LET Keep(r) == where_clause(r, conds)
    IN  SelectSeq(base_query(c), Keep)

count_query(c, conds) == Len(filtered_query(c, conds)) * Chunk

KeyLeqCikFirst(a, b) == a.cik < b.cik \/ (a.cik = b.cik /\ a.date <= b.date)

KeyLeq(a, b) == a.date < b.date \/ (a.date = b.date /\ a.cik <= b.cik)

IsOrdered(t) == \A i \in 1..Len(t) : \A j \in 1..Len(t) : i < j => KeyLeq(t[i], t[j])

Arrangements(n) == { p \in [1..n -> 1..n] : \A i, j \in 1..n : i # j => p[i] # p[j] }

\* Every arrangement of the blocks that ORDER BY date, cik admits.
OrderBy(f) ==
    { t \in { [i \in 1..Len(f) |-> f[p[i]]] : p \in Arrangements(Len(f)) } : IsOrdered(t) }

Runs(t) == [i \in 1..Len(t) |-> [row |-> t[i], n |-> Chunk]]

RECURSIVE Offset(_, _)
Offset(runs, k) ==
    IF runs = <<>> \/ k = 0 THEN runs
    ELSE IF Head(runs).n <= k THEN Offset(Tail(runs), k - Head(runs).n)
    ELSE <<[Head(runs) EXCEPT !.n = @ - k]>> \o Tail(runs)

RECURSIVE Limit(_, _)
Limit(runs, k) ==
    IF runs = <<>> \/ k = 0 THEN <<>>
    ELSE IF Head(runs).n <= k THEN <<Head(runs)>> \o Limit(Tail(runs), k - Head(runs).n)
    ELSE <<[Head(runs) EXCEPT !.n = k]>>

RECURSIVE Merge(_)
Merge(runs) ==
    IF Len(runs) < 2 THEN runs
    ELSE IF runs[1].row = runs[2].row
         THEN Merge(<<[row |-> runs[1].row, n |-> runs[1].n + runs[2].n]>> \o Tail(Tail(runs)))
         ELSE <<runs[1]>> \o Merge(Tail(runs))

\* The results the engine may return for the page query.
final_query(c, conds, lim, off) ==
    { Merge(Limit(Offset(Runs(t), off), lim)) : t \in OrderBy(filtered_query(c, conds)) }

----------------------------------------------------------------------------
\* Pagination (lines 95-100).

Ceil(n, d) == (n + d - 1) \div d

MaxPage(total) == IF total > 0 THEN Ceil(total, rows_per_page) ELSE 1

NumberInputSticky(w, m) == IF w # NoWidget THEN w.value ELSE 1

\* st.sidebar.number_input("Page Number", min_value=1, max_value=m, value=1):
\* the widget keeps the value the user gave it for as long as it is the same
\* widget; a different max_value makes it a new widget holding value=1.
NumberInput(w, m) == IF w # NoWidget /\ w.max = m THEN w.value ELSE 1

OffsetOfNextPage(p) == p * rows_per_page

OffsetOf(p) == (p - 1) * rows_per_page

----------------------------------------------------------------------------
\* State.

VARIABLES
    corpus,              \* the CSV files under files/, read by every query
    date_filter_mode,    \* sidebar radio
    selected_date,       \* "Select Date" (NoDate while not rendered)
    start_date,          \* "Start Date"  (NoDate while not rendered)
    end_date,            \* "End Date"    (NoDate while not rendered)
    cik_input,           \* "Enter CIK (Exact Match)"
    pageWidget,          \* "Page Number" widget: its max_value and its value
    requested,           \* the "Page Number" value the browser sent with the run in progress
    pc,                  \* "boot", "idle", "count" or "fetch"
    controller,          \* "AwaitingFilter" or "Ready"
    filter_conditions,
    total_count,
    max_page,
    page,
    offset,
    df,                  \* the table rendered by st.dataframe
    caption,             \* <<page, max_page>> of "Displaying page .. of .."
    download,            \* the download button and its payload
    messages,            \* st.info / st.error boxes of this run
    requests,            \* engine requests of this run, in order
    fault,               \* engine fault injected in this run
    visited              \* page -> last result shown for it under filter_conditions

widgets == <<date_filter_mode, selected_date, start_date, end_date, cik_input>>

vars == <<corpus, date_filter_mode, selected_date, start_date, end_date, cik_input,
          pageWidget, requested, pc, controller, filter_conditions, total_count, max_page,
          page, offset, df, caption, download, messages, requests, fault, visited>>

InfoNoFilter ==
    [level |-> "info", text |-> "Please select at least one filter (date or CIK) to load data."]
ErrorCount == [level |-> "error", text |-> "Error fetching record count"]
ErrorLoad == [level |-> "error", text |-> "Error loading data"]

Sent(q) == [query |-> q, event |-> "sent"]
Returned(q) == [query |-> q, event |-> "returned"]
Raised(q) == [query |-> q, event |-> "raised"]

to_csv(rows) ==
    [file |-> "filtered_data_page.csv", mime |-> "text/csv",
     header |-> <<"date", "cik", "Company_Name">>, body |-> rows]

Init ==
    /\ corpus \in Corpora
    /\ date_filter_mode = "No Date Filter"
    /\ selected_date = NoDate
    /\ start_date = NoDate
    /\ end_date = NoDate
    /\ cik_input = <<>>
    /\ pageWidget = NoWidget
    /\ requested = 0
    /\ pc = "boot"
    /\ controller = "AwaitingFilter"
    /\ filter_conditions = <<>>
    /\ total_count = 0
    /\ max_page = 0
    /\ page = 0
    /\ offset = 0
    /\ df = <<>>
    /\ caption = <<>>
    /\ download = NoExport
    /\ messages = <<>>
    /\ requests = <<>>
    /\ fault = "none"
    /\ visited = NotVisited

----------------------------------------------------------------------------
\* One script run, lines 51-86: read the sidebar widgets, build
\* filter_conditions, stop at the gate or send the count query.

GateMissing(conds) == FALSE

Gate(conds) == conds = <<>>

StartRun(mode, sel, s, e, t, w) ==
    LET conds == BuildFilterConditions(mode, sel, s, e, t)
    IN  /\ date_filter_mode' = mode
        /\ selected_date' = sel
        /\ start_date' = s
        /\ end_date' = e
        /\ cik_input' = t
        /\ filter_conditions' = conds
        /\ total_count' = 0
        /\ max_page' = 0
        /\ page' = 0
        /\ offset' = 0
        /\ df' = <<>>
        /\ caption' = <<>>
        /\ download' = NoExport
        /\ fault' = "none"
        /\ visited' = IF conds = filter_conditions THEN visited ELSE NotVisited
        /\ IF Gate(conds)
           THEN /\ messages' = <<InfoNoFilter>>
                /\ requests' = <<>>
                /\ controller' = "AwaitingFilter"
                /\ pageWidget' = NoWidget
                /\ requested' = 0
                /\ pc' = "idle"
           ELSE /\ messages' = <<>>
                /\ requests' = <<Sent("count")>>
                /\ controller' = "Ready"
                /\ pageWidget' = w
                /\ requested' = w.value
                /\ pc' = "count"
        /\ UNCHANGED corpus

\* First load of the page: every widget holds its default.
Load ==
    /\ pc = "boot"
    /\ StartRun(date_filter_mode, selected_date, start_date, end_date, cik_input, pageWidget)

\* The interactions: the user changes one widget, or presses the download
\* button, and the script runs again.
SetDateMode(m) ==
    /\ pc = "idle"
    /\ m # date_filter_mode
    /\ StartRun(m,
                IF m = "Single Date" THEN Today ELSE NoDate,
                IF m = "Date Range" THEN Today ELSE NoDate,
                IF m = "Date Range" THEN Today ELSE NoDate,
                cik_input, pageWidget)

SetSelectedDate(d) ==
    /\ pc = "idle"
    /\ date_filter_mode = "Single Date"
    /\ d # selected_date
    /\ StartRun(date_filter_mode, d, start_date, end_date, cik_input, pageWidget)

SetStartDate(d) ==
    /\ pc = "idle"
    /\ date_filter_mode = "Date Range"
    /\ d # start_date
    /\ StartRun(date_filter_mode, selected_date, d, end_date, cik_input, pageWidget)

SetEndDate(d) ==
    /\ pc = "idle"
    /\ date_filter_mode = "Date Range"
    /\ d # end_date
    /\ StartRun(date_filter_mode, selected_date, start_date, d, cik_input, pageWidget)

SetCik(t) ==
    /\ pc = "idle"
    /\ t # cik_input
    /\ StartRun(date_filter_mode, selected_date, start_date, end_date, t, pageWidget)

SetPage(v) ==
    /\ pc = "idle"
    /\ pageWidget # NoWidget
    /\ v \in 1..pageWidget.max
    /\ v # pageWidget.value
    /\ StartRun(date_filter_mode, selected_date, start_date, end_date, cik_input,
                [pageWidget EXCEPT !.value = v])

Download ==
    /\ pc = "idle"
    /\ download # NoExport
    /\ StartRun(date_filter_mode, selected_date, start_date, end_date, cik_input, pageWidget)

\* Lines 87-103: the count query returns; pagination; the page query is sent.
CountReturns ==
    /\ pc = "count"
    /\ ~Malformed(filter_conditions)
    /\ total_count' = count_query(corpus, filter_conditions)
    /\ max_page' = MaxPage(total_count')
    /\ page' = NumberInput(pageWidget, max_page')
    /\ pageWidget' = [max |-> max_page', value |-> page']
    /\ offset' = OffsetOf(page')
    /\ requests' = requests \o <<Returned("count"), Sent("final")>>
    /\ pc' = "fetch"
    /\ UNCHANGED <<corpus, widgets, requested, controller, filter_conditions, df, caption,
                   download, messages, fault, visited>>

CountRaisesNoStop ==
    /\ pc = "count"
    /\ \E f \in BOOLEAN :
        /\ f \/ Malformed(filter_conditions)
        /\ fault' = IF f THEN "count" ELSE fault
    /\ messages' = messages \o <<ErrorCount>>
    /\ requests' = requests \o <<Raised("count"), Sent("final")>>
    /\ max_page' = 1
    /\ page' = 1
    /\ pageWidget' = [max |-> 1, value |-> 1]
    /\ pc' = "fetch"
    /\ UNCHANGED <<corpus, widgets, requested, controller, filter_conditions, total_count,
                   offset, df, caption, download, visited>>

\* Lines 90-92: the count query raises, on a query text the engine rejects or
\* on an engine fault.
CountRaises ==
    /\ pc = "count"
    /\ \E f \in BOOLEAN :
        /\ f \/ Malformed(filter_conditions)
        /\ fault' = IF f THEN "count" ELSE fault
    /\ messages' = messages \o <<ErrorCount>>
    /\ requests' = requests \o <<Raised("count")>>
    /\ pageWidget' = NoWidget
    /\ requested' = 0
    /\ pc' = "idle"
    /\ UNCHANGED <<corpus, widgets, controller, filter_conditions, total_count,
                   max_page, page, offset, df, caption, download, visited>>

\* Lines 105-116: the page query returns; the page is rendered.
FetchReturns ==
    /\ pc = "fetch"
    /\ \E rows \in final_query(corpus, filter_conditions, rows_per_page, offset) :
        /\ df' = rows
        /\ download' = to_csv(rows)
        /\ visited' = (page :> [rows |-> rows, total_count |-> total_count]) @@ visited
    /\ caption' = <<page, max_page>>
    /\ requests' = requests \o <<Returned("final")>>
    /\ requested' = 0
    /\ pc' = "idle"
    /\ UNCHANGED <<corpus, widgets, pageWidget, controller, filter_conditions,
                   total_count, max_page, page, offset, messages, fault>>

FetchRaisesSilent ==
    /\ pc = "fetch"
    /\ fault' = "fetch"
    /\ messages' = messages
    /\ requests' = requests \o <<Raised("final")>>
    /\ requested' = 0
    /\ pc' = "idle"
    /\ UNCHANGED <<corpus, widgets, pageWidget, controller, filter_conditions,
                   total_count, max_page, page, offset, df, caption, download, visited>>

\* Lines 107-109: the page query raises.
FetchRaises ==
    /\ pc = "fetch"
    /\ fault' = "fetch"
    /\ messages' = messages \o <<ErrorLoad>>
    /\ requests' = requests \o <<Raised("final")>>
    /\ requested' = 0
    /\ pc' = "idle"
    /\ UNCHANGED <<corpus, widgets, pageWidget, controller, filter_conditions,
                   total_count, max_page, page, offset, df, caption, download, visited>>

Interact ==
    \/ \E m \in DateModes : SetDateMode(m)
    \/ \E d \in Dates : SetSelectedDate(d)
    \/ \E d \in Dates : SetStartDate(d)
    \/ \E d \in Dates : SetEndDate(d)
    \/ \E t \in CikInputs : SetCik(t)
    \/ \E v \in 1..pageWidget.max : SetPage(v)
    \/ Download

Next ==
    \/ Load
    \/ Interact
    \/ CountReturns
    \/ CountRaises
    \/ FetchReturns
    \/ FetchRaises

Spec == Init /\ [][Next]_vars

TypeOK ==
    /\ pc \in {"boot", "idle", "count", "fetch"}
    /\ controller \in {"AwaitingFilter", "Ready"}
    /\ date_filter_mode \in DateModes
    /\ cik_input \in CikInputs

----------------------------------------------------------------------------
\* Vocabulary of the properties.

Has(ev) == \E i \in 1..Len(requests) : requests[i] = ev

SentCount == Cardinality({ i \in 1..Len(requests) : requests[i].event = "sent" })

HasError == \E i \in 1..Len(messages) : messages[i].level = "error"

PageShown == caption # <<>>

NothingShown == df = <<>> /\ caption = <<>> /\ download = NoExport

RECURSIVE Size(_)
Size(runs) == IF runs = <<>> THEN 0 ELSE Head(runs).n + Size(Tail(runs))

RECURSIVE Copies(_, _)
Copies(runs, r) ==
    IF runs = <<>> THEN 0
    ELSE (IF Head(runs).row = r THEN Head(runs).n ELSE 0) + Copies(Tail(runs), r)

ShownRows == { SelectRow(r) : r \in CsvRows }

\* date first, identifier second, both ascending
Before(a, b) == a.date < b.date \/ (a.date = b.date /\ a.cik <= b.cik)

NonDecreasing(runs) ==
    \A i \in 1..Len(runs) : \A j \in 1..Len(runs) :
        i < j => Before(runs[i].row, runs[j].row)

\* the least number of pages of rows_per_page rows that hold n rows
LeastPages(n) ==
    CHOOSE m \in 0..(n \div rows_per_page + 1) :
        /\ m * rows_per_page >= n
        /\ \A k \in 0..(m - 1) : k * rows_per_page < n

AtLeastOne(m) == IF m < 1 THEN 1 ELSE m

Matching == { i \in 1..Len(corpus) : where_clause(corpus[i], filter_conditions) }

----------------------------------------------------------------------------
\* C1 - Gate: whenever the date mode is "No Date Filter" and the identifier
\* text is empty, the run ends at the gate with the prompt for a filter and
\* sends no request to the engine, neither the count nor the page query.
GateHalts ==
    (pc # "boot" /\ date_filter_mode = "No Date Filter" /\ cik_input = <<>>)
        => /\ pc = "idle"
           /\ messages = <<InfoNoFilter>>
           /\ requests = <<>>
           /\ NothingShown

GateHaltsWitness ==
    /\ pc = "idle"
    /\ date_filter_mode = "No Date Filter"
    /\ cik_input = <<>>
    /\ messages = <<InfoNoFilter>>
    /\ requests = <<>>
    /\ corpus # <<>>

\* C2 - Pagination bound: in every run that reaches the page query, the page
\* used for the offset satisfies 1 <= page <= max(1, ceil(total_count/10000)),
\* also when the browser still holds a larger page from before a filter change.
PageWithinBounds ==
    Has(Sent("final"))
        => /\ 1 <= page
           /\ page <= AtLeastOne(LeastPages(total_count))
           /\ offset = (page - 1) * 10000

PageWithinBoundsWitness ==
    /\ Has(Sent("final"))
    /\ requested > AtLeastOne(LeastPages(total_count))
    /\ page = 1
    /\ total_count > 0

\* C3 (as stated) - Request protocol: every run sends zero or exactly two
\* requests; the count query is sent and completes first, the page query is
\* sent only afterwards, and no page query is sent without a count before it.
ZeroOrTwoRequests ==
    /\ pc = "idle" => SentCount \in {0, 2}
    /\ \A i \in 1..Len(requests) :
        requests[i] = Sent("final")
            => \E j \in 1..(i - 1) : requests[j] = Returned("count")

\* C3 (amended) - every run sends zero requests, one request (the count query,
\* when it raises) or two; a request is completed before the next is sent,
\* the page query is sent only after the count query has returned, and each
\* query is sent at most once.
RequestProtocol ==
    /\ pc = "idle" => \/ SentCount = 0
                      \/ SentCount = 1 /\ requests = <<Sent("count"), Raised("count")>>
                      \/ SentCount = 2
    /\ \A i \in 1..Len(requests) :
        requests[i] = Sent("final")
            => \E j \in 1..(i - 1) : requests[j] = Returned("count")
    /\ \A i \in 1..Len(requests) :
        (requests[i].event = "sent" /\ i < Len(requests))
            => /\ requests[i + 1].query = requests[i].query
               /\ requests[i + 1].event \in {"returned", "raised"}
    /\ \A i \in 1..Len(requests) : \A j \in 1..Len(requests) :
        (requests[i].event = "sent" /\ requests[i] = requests[j]) => i = j
    /\ Len(requests) > 0 => requests[1] = Sent("count")
    /\ (pc = "count") = (Len(requests) > 0 /\ requests[Len(requests)] = Sent("count"))
    /\ (pc = "fetch") = (Len(requests) > 0 /\ requests[Len(requests)] = Sent("final"))

RequestProtocolWitness ==
    /\ pc = "idle"
    /\ requests = <<Sent("count"), Raised("count")>>
    /\ ~Malformed(filter_conditions)

\* C4 - Failure handling: a run whose count query raises shows an error, sends
\* no page query and shows no rows and no download; a run whose page query
\* raises shows an error and shows no rows and no download.  Neither query is
\* sent again in that run, and the next run starts with no trace of the error.
FailureState ==
    /\ Has(Raised("count"))
        => /\ pc = "idle"
           /\ messages = <<ErrorCount>>
           /\ ~Has(Sent("final"))
           /\ SentCount = 1
           /\ NothingShown
    /\ Has(Raised("final"))
        => /\ pc = "idle"
           /\ messages = <<ErrorLoad>>
           /\ Has(Returned("count"))
           /\ SentCount = 2
           /\ NothingShown
    /\ HasError => (Has(Raised("count")) \/ Has(Raised("final")))

FailureHandling ==
    /\ []FailureState
    /\ [][(pc = "idle" /\ HasError)
            => (~HasError' /\ requests' \in {<<>>, <<Sent("count")>>} /\ NothingShown')]_vars

FailureHandlingWitness ==
    /\ pc = "idle"
    /\ requests = <<Sent("count"), Returned("count"), Sent("final"), Raised("final")>>
    /\ messages = <<ErrorLoad>>
    /\ total_count > 0

\* C5 - Row count: a page that is shown holds exactly 10000 rows unless it is
\* the last one, and the last page holds total_count - (max_page-1)*10000.
RowCount ==
    PageShown
        => /\ offset = (page - 1) * 10000
           /\ page < max_page => Size(df) = 10000
           /\ page = max_page => Size(df) = total_count - (max_page - 1) * 10000

RowCountWitness ==
    /\ PageShown
    /\ max_page > 1
    /\ page = max_page
    /\ Size(df) = total_count - (max_page - 1) * 10000
    /\ Size(df) > 0
    /\ Size(df) < 10000
    /\ 1 \in DOMAIN visited
    /\ Size(visited[1].rows) = 10000

\* C6 - Ordering: the rows of a page that is shown are non-decreasing by
\* (date, identifier), date first; and every row of page p precedes or equals
\* every row of page p+1 of the same filter.
Ordering ==
    /\ NonDecreasing(df)
    /\ \A p \in DOMAIN visited :
        /\ NonDecreasing(visited[p].rows)
        /\ (p + 1) \in DOMAIN visited
            => \A i \in 1..Len(visited[p].rows) : \A j \in 1..Len(visited[p + 1].rows) :
                    Before(visited[p].rows[i].row, visited[p + 1].rows[j].row)

OrderingWitness ==
    /\ PageShown
    /\ \E i \in 1..Len(df) : \E j \in 1..Len(df) :
        /\ i < j
        /\ df[i].row.date < df[j].row.date
        /\ df[i].row.cik > df[j].row.cik
    /\ {1, 2} \subseteq DOMAIN visited

\* C7 - Idempotence: a page shown again for the same filter_conditions and the
\* same page number, the corpus being unchanged, has the same rows in the same
\* sequence, the same total_count and the same page number, also when matching
\* rows tie on (date, identifier).
Idempotent ==
    [][(pc = "fetch" /\ PageShown' /\ page \in DOMAIN visited)
        => /\ df' = visited[page].rows
           /\ total_count' = visited[page].total_count
           /\ caption'[1] = page]_vars

\* C8 - Inverted range: in "Date Range" mode with start_date > end_date the
\* range condition is emitted as given, the gate is passed, and the run yields
\* total_count = 0, max_page = 1, page 1, no rows and no error of its own;
\* any filter with total_count = 0 yields max_page = 1 and an empty page.
InvertedRange ==
    /\ (pc # "boot" /\ date_filter_mode = "Date Range" /\ start_date > end_date)
        => /\ filter_conditions[1] =
                [kind |-> "DateRange", start |-> start_date, end |-> end_date]
           /\ controller = "Ready"
           /\ requests # <<>>
           /\ Matching = {}
           /\ Has(Returned("count"))
                => (total_count = 0 /\ max_page = 1 /\ page = 1 /\ offset = 0)
           /\ Has(Returned("final")) => (df = <<>> /\ caption = <<1, 1>> /\ ~HasError)
           /\ (pc = "idle" /\ fault = "none" /\ QuoteCount(cik_input) % 2 = 0)
                => (Has(Returned("final")) /\ ~HasError)
    /\ (Has(Returned("count")) /\ total_count = 0)
        => /\ max_page = 1
           /\ page = 1
           /\ Has(Returned("final")) => (df = <<>> /\ PageShown /\ ~HasError)

InvertedRangeWitness ==
    /\ pc = "idle"
    /\ date_filter_mode = "Date Range"
    /\ start_date > end_date
    /\ cik_input = <<>>
    /\ caption = <<1, 1>>
    /\ df = <<>>
    /\ \E i \in 1..Len(corpus) : corpus[i].date >= end_date /\ corpus[i].date <= start_date

\* C9 - Two-state controller: after every run the controller is Ready exactly
\* when the filter built from the current inputs is non-empty, whatever it was
\* before; the filter is empty exactly when the mode is "No Date Filter" and
\* the identifier is empty, so "Single Date" and "Date Range" are always
\* Ready; and neither state is terminal: a criterion can be added in
\* AwaitingFilter and one can be removed in Ready.
TwoStates ==
    pc # "boot"
        => /\ (controller = "AwaitingFilter")
                = (date_filter_mode = "No Date Filter" /\ cik_input = <<>>)
           /\ (controller = "Ready") = (filter_conditions # <<>>)
           /\ controller \in {"AwaitingFilter", "Ready"}
           /\ date_filter_mode \in {"Single Date", "Date Range"} => controller = "Ready"
           /\ (pc = "idle" /\ controller = "AwaitingFilter")
                => ENABLED SetDateMode("Single Date")
           /\ (pc = "idle" /\ controller = "Ready")
                => ENABLED (SetDateMode("No Date Filter") \/ SetCik(<<>>))

TwoStatesWitness ==
    /\ pc = "idle"
    /\ controller = "Ready"
    /\ date_filter_mode = "Date Range"
    /\ start_date > end_date
    /\ cik_input = <<>>

\* C10 - Page partition: once every page 1..max_page of a filter has been
\* shown, in whatever order, the pages together hold exactly the matching
\* rows, each as often as it matches; and a page shown with total_count > 0
\* is not empty.
PagePartition ==
    /\ (PageShown /\ DOMAIN visited = 1..max_page)
        => \A r \in ShownRows :
              LET onPages[p \in 0..max_page] ==
                      IF p = 0 THEN 0 ELSE onPages[p - 1] + Copies(visited[p].rows, r)
              IN  onPages[max_page]
                    = Chunk * Cardinality({ i \in Matching : SelectRow(corpus[i]) = r })
    /\ (PageShown /\ total_count > 0) => (offset < total_count /\ df # <<>>)

====
